---- MODULE Spec2Model ----
(***************************************************************************)
(* A model of detector_ankur_singh.py: the field classifiers, the field    *)
(* maskers, the two-tier redaction policy (redact_obj) and the batch loop  *)
(* of main.                                                                *)
(*                                                                         *)
(* Text is a sequence of one-character strings.  A decoded JSON value is a *)
(* record [t, s]: t is its Python type ("str", "num", "null") and s is the *)
(* text str(value) gives.  A decoded JSON object is a function from field  *)
(* names to values; the order of its keys is not modelled.                 *)
(***************************************************************************)
EXTENDS Integers, Sequences, FiniteSets, TLC

VARIABLES
    pc,         \* position of the modelled call or loop
    js,         \* redact_obj: the decoded record
    output_js,  \* redact_obj: the masked record returned
    is_pii,     \* redact_obj: the flag returned
    val,        \* the text handed to mask_upi / is_ip
    res,        \* what mask_upi / is_ip returned
    rows,       \* main: the rows the reader yields
    next_row,   \* main: the index of the row the reader yields next
    written     \* main: the rows written so far

vars == <<pc, js, output_js, is_pii, val, res, rows, next_row, written>>

---------------------------------------------------------------------------
(* Text and Python helpers *)

Digits == {"0", "1", "2", "3", "4", "5", "6", "7", "8", "9"}

UpperSeq == <<"A", "B", "C", "D", "E", "F", "G", "H", "I", "J", "K", "L", "M",
              "N", "O", "P", "Q", "R", "S", "T", "U", "V", "W", "X", "Y", "Z">>

LowerSeq == <<"a", "b", "c", "d", "e", "f", "g", "h", "i", "j", "k", "l", "m",
              "n", "o", "p", "q", "r", "s", "t", "u", "v", "w", "x", "y", "z">>

UpperLetters == {UpperSeq[i] : i \in DOMAIN UpperSeq}

Whitespace == {" ", "\t", "\n", "\r", "\f"}

Min(a, b) == IF a < b THEN a ELSE b

Max(a, b) == IF a > b THEN a ELSE b

\* str.lower() on one character and on a text
LowerChar(c) ==
    IF c \in UpperLetters
    THEN LowerSeq[CHOOSE i \in DOMAIN UpperSeq : UpperSeq[i] = c]
    ELSE c

Lower(s) == [i \in DOMAIN s |-> LowerChar(s[i])]

\* v[:n] and v[-n:]
Prefix(s, n) == SubSeq(s, 1, Min(n, Len(s)))

Suffix(s, n) == SubSeq(s, Max(1, Len(s) - n + 1), Len(s))

\* w in s
Contains(s, w) ==
    \E i \in 1..(Len(s) - Len(w) + 1) : SubSeq(s, i, i + Len(w) - 1) = w

\* s.startswith(w)
StartsWith(s, w) == Len(s) >= Len(w) /\ SubSeq(s, 1, Len(w)) = w

HasChar(s, c) == \E i \in DOMAIN s : s[i] = c

\* str.split() with no argument: the maximal runs of non-whitespace, in order
RECURSIVE SplitFrom(_, _, _)
SplitFrom(s, i, cur) ==
    IF i > Len(s)
    THEN IF cur = <<>> THEN <<>> ELSE <<cur>>
    ELSE IF s[i] \in Whitespace
         THEN (IF cur = <<>> THEN <<>> ELSE <<cur>>) \o SplitFrom(s, i + 1, <<>>)
         ELSE SplitFrom(s, i + 1, Append(cur, s[i]))

Split(s) == SplitFrom(s, 1, <<>>)

\* ' '.join(parts)
RECURSIVE JoinWith(_, _)
JoinWith(parts, sep) ==
    IF parts = <<>> THEN <<>>
    ELSE IF Len(parts) = 1 THEN parts[1]
    ELSE parts[1] \o sep \o JoinWith(Tail(parts), sep)

\* JSON values as Python sees them
Str(s) == [t |-> "str", s |-> s]

Num(s) == [t |-> "num", s |-> s]

Null == [t |-> "null", s |-> <<"N", "o", "n", "e">>]

\* isinstance(val, str)
IsStr(v) == v.t = "str"

\* str(val)
PyStr(v) == v.s

Xs(n) == [i \in 1..n |-> "X"]

---------------------------------------------------------------------------
(* Field maskers *)

mask_phone(phone) ==
    LET v == PyStr(phone)
    IN  Str(Prefix(v, 2) \o Xs(6) \o Suffix(v, 2))

mask_aadhar(aadhar) ==
    LET v == PyStr(aadhar)
    IN  Str(Prefix(v, 2) \o Xs(8) \o Suffix(v, 2))

REDACTED_PASSPORT ==
    <<"[", "R", "E", "D", "A", "C", "T", "E", "D", "_",
      "P", "A", "S", "S", "P", "O", "R", "T", "]">>

mask_passport(passport) ==
    LET v == PyStr(passport)
    IN  Str(IF Len(v) = 8 THEN <<v[1]>> \o Xs(7) ELSE REDACTED_PASSPORT)

\* re.sub(r'(.)(?:.*)(@.+)', lambda m: m.group(1) + 'XXX' + m.group(2), s):
\* '.' matches any character but a newline, '.*' and '.+' are greedy, and every
\* non-overlapping match, leftmost first, is replaced.
RECURSIVE LineEnd(_, _)
LineEnd(s, i) ==
    IF i < Len(s) /\ s[i + 1] # "\n" THEN LineEnd(s, i + 1) ELSE i

\* the places of the '@' that (@.+) can start at, for a match starting at i
UpiAts(s, i) == {j \in (i + 1)..(LineEnd(s, i) - 1) : s[j] = "@"}

UpiMatchAt(s, i) == s[i] # "\n" /\ UpiAts(s, i) # {}

SetMax(S) == CHOOSE x \in S : \A y \in S : y <= x

SetMin(S) == CHOOSE x \in S : \A y \in S : x <= y

RECURSIVE SubUpi(_, _)
SubUpi(s, pos) ==
    LET starts == {i \in pos..Len(s) : UpiMatchAt(s, i)}
    IN  IF starts = {}
        THEN SubSeq(s, pos, Len(s))
        ELSE LET i == SetMin(starts)
                 e == LineEnd(s, i)
                 j == SetMax(UpiAts(s, i))
             IN  SubSeq(s, pos, i - 1) \o <<s[i]>> \o Xs(3) \o SubSeq(s, j, e)
                 \o SubUpi(s, e + 1)

mask_upi(upi) == Str(SubUpi(PyStr(upi), 1))

REDACTED_EMAIL ==
    <<"[", "R", "E", "D", "A", "C", "T", "E", "D", "_", "E", "M", "A", "I", "L", "]">>

\* re.match(r'^([^@]{2})([^@]*)(@.+)$', email): '$' matches at the end of the
\* text and before a newline that ends it.
mask_email(email) ==
    LET s == email.s
        ats == {p \in DOMAIN s : s[p] = "@"}
    IN  IF ats = {} THEN Str(REDACTED_EMAIL)
        ELSE LET p == SetMin(ats)
                 e == LineEnd(s, p + 1)
                 ok == /\ p >= 3
                       /\ p + 1 <= Len(s)
                       /\ s[p + 1] # "\n"
                       /\ \/ e = Len(s)
                          \/ e = Len(s) - 1 /\ s[Len(s)] = "\n"
             IN  IF ok
                 THEN Str(SubSeq(s, 1, 2) \o Xs(3) \o SubSeq(s, p, e))
                 ELSE Str(REDACTED_EMAIL)

MaskPart(part) == IF Len(part) > 1 THEN <<part[1]>> \o Xs(3) ELSE part

mask_name(name) ==
    LET parts == Split(name.s)
        masked == [i \in DOMAIN parts |-> MaskPart(parts[i])]
    IN  Str(JoinWith(masked, <<" ">>))

REDACTED_ADDRESS ==
    <<"[", "R", "E", "D", "A", "C", "T", "E", "D", "_", "A", "D", "D", "R", "E", "S", "S", "]">>

REDACTED_DEVICEID ==
    <<"[", "R", "E", "D", "A", "C", "T", "E", "D", "_", "D", "E", "V", "I", "C", "E", "I", "D", "]">>

REDACTED_IP ==
    <<"[", "R", "E", "D", "A", "C", "T", "E", "D", "_", "I", "P", "]">>

mask_address(address) == Str(REDACTED_ADDRESS)

mask_device_id(device_id) == Str(REDACTED_DEVICEID)

mask_ip(ip_addr) == Str(REDACTED_IP)

---------------------------------------------------------------------------
(* Field classifiers *)

AllDigits(s) == \A i \in DOMAIN s : s[i] \in Digits

\* is_phone without the isinstance test, matching on str(val)
is_phone_any_type(v) == Len(PyStr(v)) = 10 /\ AllDigits(PyStr(v))

\* re.fullmatch(r'\d{10}', val)
is_phone(v) == IsStr(v) /\ Len(v.s) = 10 /\ AllDigits(v.s)

\* re.fullmatch(r'\d{12}', val)
is_aadhar(v) == IsStr(v) /\ Len(v.s) = 12 /\ AllDigits(v.s)

\* re.fullmatch(r'[A-Z][0-9]{7}', val)
is_passport(v) ==
    /\ IsStr(v)
    /\ Len(v.s) = 8
    /\ v.s[1] \in UpperLetters
    /\ AllDigits(Tail(v.s))

is_upi(v) == IsStr(v) /\ HasChar(v.s, "@")

\* re.fullmatch(r'[^@]+@[^@]+\.[^@]+', val)
is_email(v) ==
    /\ IsStr(v)
    /\ \E p \in DOMAIN v.s : \E q \in DOMAIN v.s :
          /\ v.s[p] = "@"
          /\ \A k \in DOMAIN v.s : k # p => v.s[k] # "@"
          /\ p >= 2
          /\ q >= p + 2
          /\ v.s[q] = "."
          /\ q <= Len(v.s) - 1

AddressWords ==
    { <<"r", "o", "a", "d">>,
      <<"s", "t", "r", "e", "e", "t">>,
      <<"a", "v", "e", "n", "u", "e">>,
      <<"l", "a", "n", "e">>,
      <<"b", "l", "o", "c", "k">>,
      <<"s", "e", "c", "t", "o", "r">> }

is_address(v) ==
    /\ IsStr(v)
    /\ \/ HasChar(v.s, ",")
       \/ \E i \in DOMAIN v.s : v.s[i] \in Digits
       \/ \E w \in AddressWords : Contains(Lower(v.s), w)

\* re.fullmatch(r'((25[0-5]|2[0-4]\d|1\d\d|[1-9]?\d)(\.|$)){4}', val + '.'),
\* matched as the regular expression is: the set of places each piece can end at.
At(t, i) == IF i \in DOMAIN t THEN t[i] ELSE ""

OctetEnds(t, i) ==
    (IF At(t, i) = "2" /\ At(t, i + 1) = "5"
        /\ At(t, i + 2) \in {"0", "1", "2", "3", "4", "5"}
     THEN {i + 3} ELSE {})
    \cup
    (IF At(t, i) = "2" /\ At(t, i + 1) \in {"0", "1", "2", "3", "4"}
        /\ At(t, i + 2) \in Digits
     THEN {i + 3} ELSE {})
    \cup
    (IF At(t, i) = "1" /\ At(t, i + 1) \in Digits /\ At(t, i + 2) \in Digits
     THEN {i + 3} ELSE {})
    \cup
    (IF At(t, i) \in Digits \ {"0"} /\ At(t, i + 1) \in Digits
     THEN {i + 2} ELSE {})
    \cup
    (IF At(t, i) \in Digits THEN {i + 1} ELSE {})

SepEnds(t, j) ==
    (IF At(t, j) = "." THEN {j + 1} ELSE {})
    \cup
    (IF j = Len(t) + 1 \/ (j = Len(t) /\ t[j] = "\n") THEN {j} ELSE {})

IpGroupEnds(t, P) ==
    UNION {UNION {SepEnds(t, j) : j \in OctetEnds(t, i)} : i \in P}

\* is_ip matching val itself, without the '.' appended
is_ip_no_trailing_dot(v) ==
    /\ IsStr(v)
    /\ LET t == v.s
       IN  (Len(t) + 1) \in
               IpGroupEnds(t, IpGroupEnds(t, IpGroupEnds(t, IpGroupEnds(t, {1}))))

is_ip(v) ==
    /\ IsStr(v)
    /\ LET t == v.s \o <<".">>
       IN  (Len(t) + 1) \in
               IpGroupEnds(t, IpGroupEnds(t, IpGroupEnds(t, IpGroupEnds(t, {1}))))

is_device_id(v) ==
    /\ IsStr(v)
    /\ \/ StartsWith(Lower(v.s), <<"d", "e", "v">>)
       \/ StartsWith(Lower(v.s), <<"m", "o", "b">>)
       \/ StartsWith(Lower(v.s), <<"t", "a", "b">>)
       \/ Len(v.s) >= 6

\* str.strip()
RECURSIVE LStrip(_)
LStrip(s) ==
    IF s # <<>> /\ s[1] \in Whitespace THEN LStrip(Tail(s)) ELSE s

RECURSIVE RStrip(_)
RStrip(s) ==
    IF s # <<>> /\ s[Len(s)] \in Whitespace
    THEN RStrip(SubSeq(s, 1, Len(s) - 1)) ELSE s

Strip(s) == RStrip(LStrip(s))

is_name(v) == IsStr(v) /\ Len(Split(Strip(v.s))) >= 2

---------------------------------------------------------------------------
(* Redaction policy *)

EmptyDict == [k \in {} |-> Null]

\* d[k] = v
Put(d, k, v) == [x \in DOMAIN d \cup {k} |-> IF x = k THEN v ELSE d[x]]

\* d.update(e)
Update(d, e) ==
    [x \in DOMAIN d \cup DOMAIN e |-> IF x \in DOMAIN e THEN e[x] ELSE d[x]]

\* detect_standalone_pii setting found for a field that is present, matched or not
detect_standalone_pii_found_if_present(d) ==
    LET m1 == "phone" \in DOMAIN d /\ is_phone(d["phone"])
        r1 == IF m1 THEN Put(EmptyDict, "phone", mask_phone(d["phone"]))
              ELSE EmptyDict
        m2 == "aadhar" \in DOMAIN d /\ is_aadhar(d["aadhar"])
        r2 == IF m2 THEN Put(r1, "aadhar", mask_aadhar(d["aadhar"])) ELSE r1
        m3 == "passport" \in DOMAIN d /\ is_passport(d["passport"])
        r3 == IF m3 THEN Put(r2, "passport", mask_passport(d["passport"])) ELSE r2
        m4 == "upi_id" \in DOMAIN d /\ is_upi(d["upi_id"])
        r4 == IF m4 THEN Put(r3, "upi_id", mask_upi(d["upi_id"])) ELSE r3
    IN  [found |-> {"phone", "aadhar", "passport", "upi_id"} \cap DOMAIN d # {}, redacted |-> r4]

detect_standalone_pii(d) ==
    LET m1 == "phone" \in DOMAIN d /\ is_phone(d["phone"])
        r1 == IF m1 THEN Put(EmptyDict, "phone", mask_phone(d["phone"]))
              ELSE EmptyDict
        m2 == "aadhar" \in DOMAIN d /\ is_aadhar(d["aadhar"])
        r2 == IF m2 THEN Put(r1, "aadhar", mask_aadhar(d["aadhar"])) ELSE r1
        m3 == "passport" \in DOMAIN d /\ is_passport(d["passport"])
        r3 == IF m3 THEN Put(r2, "passport", mask_passport(d["passport"])) ELSE r2
        m4 == "upi_id" \in DOMAIN d /\ is_upi(d["upi_id"])
        r4 == IF m4 THEN Put(r3, "upi_id", mask_upi(d["upi_id"])) ELSE r3
    IN  [found |-> m1 \/ m2 \/ m3 \/ m4, redacted |-> r4]

\* the keys list holding every combinatorial field present, matched or not
CombKeysOf_present(d) ==
    (IF "name" \in DOMAIN d THEN <<"name">> ELSE <<>>)
    \o (IF "email" \in DOMAIN d THEN <<"email">> ELSE <<>>)
    \o (IF "address" \in DOMAIN d THEN <<"address">> ELSE <<>>)
    \o (IF "device_id" \in DOMAIN d THEN <<"device_id">> ELSE <<>>)
    \o (IF "ip_address" \in DOMAIN d THEN <<"ip_address">> ELSE <<>>)

\* the keys list built by detect_combinatorial_pii, in the order it appends
CombKeysOf(d) ==
    (IF "name" \in DOMAIN d /\ is_name(d["name"]) THEN <<"name">> ELSE <<>>)
    \o (IF "email" \in DOMAIN d /\ is_email(d["email"]) THEN <<"email">> ELSE <<>>)
    \o (IF "address" \in DOMAIN d /\ is_address(d["address"])
        THEN <<"address">> ELSE <<>>)
    \o (IF "device_id" \in DOMAIN d /\ is_device_id(d["device_id"])
        THEN <<"device_id">> ELSE <<>>)
    \o (IF "ip_address" \in DOMAIN d /\ is_ip(d["ip_address"])
        THEN <<"ip_address">> ELSE <<>>)

\* the if/elif chain of the masking loop
CombMask(k, v) ==
    CASE k = "name" -> mask_name(v)
      [] k = "email" -> mask_email(v)
      [] k = "address" -> mask_address(v)
      [] k = "device_id" -> mask_device_id(v)
      [] k = "ip_address" -> mask_ip(v)

\* detect_combinatorial_pii masking only the first two matching keys
detect_combinatorial_pii_first_two(d) ==
    LET keys == CombKeysOf(d)
    IN  IF Len(keys) >= 2
        THEN [found |-> TRUE,
              redacted |-> [k \in {keys[1], keys[2]} |-> CombMask(k, d[k])]]
        ELSE [found |-> FALSE, redacted |-> EmptyDict]

\* detect_combinatorial_pii with one matching key being enough
detect_combinatorial_pii_one_suffices(d) ==
    LET keys == CombKeysOf(d)
    IN  IF Len(keys) >= 1
        THEN [found |-> TRUE,
              redacted |-> [k \in {keys[i] : i \in DOMAIN keys} |-> CombMask(k, d[k])]]
        ELSE [found |-> FALSE, redacted |-> EmptyDict]

detect_combinatorial_pii(d) ==
    LET keys == CombKeysOf(d)
    IN  IF Len(keys) >= 2
        THEN [found |-> TRUE,
              redacted |-> [k \in {keys[i] : i \in DOMAIN keys} |-> CombMask(k, d[k])]]
        ELSE [found |-> FALSE, redacted |-> EmptyDict]

\* redact_obj building its output from an empty dict instead of a copy of js
redact_dict_from_empty(d) ==
    LET st == detect_standalone_pii(d)
        o1 == IF st.found THEN Update(EmptyDict, st.redacted) ELSE EmptyDict
        cb == detect_combinatorial_pii(d)
        o2 == IF cb.found THEN Update(o1, cb.redacted) ELSE o1
    IN  [output_js |-> o2, is_pii |-> st.found \/ cb.found]

\* redact_obj whose combinatorial pass updates a fresh copy of js, losing the
\* standalone pass's masks
redact_dict_comb_overwrites(d) ==
    LET st == detect_standalone_pii(d)
        o1 == IF st.found THEN Update(d, st.redacted) ELSE d
        cb == detect_combinatorial_pii(d)
        o2 == IF cb.found THEN Update(d, cb.redacted) ELSE o1
    IN  [output_js |-> o2, is_pii |-> st.found \/ cb.found]

\* redact_obj after json.loads: d is the decoded object
redact_dict(d) ==
    LET st == detect_standalone_pii(d)
        o1 == IF st.found THEN Update(d, st.redacted) ELSE d
        cb == detect_combinatorial_pii(d)
        o2 == IF cb.found THEN Update(o1, cb.redacted) ELSE o1
    IN  [output_js |-> o2, is_pii |-> st.found \/ cb.found]

\* redact_obj(data_json).  data_json is [kind, v]: text json.loads rejects
\* ("malformed"), no text at all (None, a row with too few columns: "none"), the
\* text of a JSON string, number or null ("scalar", v the value) or of a JSON
\* object ("object", v the decoded dict).  json.loads raising, and dict(js)
\* raising on anything but a dict or the empty string, leave the function by
\* an exception.
redact_obj(data_json) ==
    CASE data_json.kind \in {"malformed", "none"} ->
             [raised |-> TRUE, output_js |-> EmptyDict, is_pii |-> FALSE]
      [] data_json.kind = "scalar" ->
             [raised |-> ~(IsStr(data_json.v) /\ data_json.v.s = <<>>),
              output_js |-> EmptyDict, is_pii |-> FALSE]
      [] data_json.kind = "object" ->
             [raised |-> FALSE,
              output_js |-> redact_dict(data_json.v).output_js,
              is_pii |-> redact_dict(data_json.v).is_pii]

---------------------------------------------------------------------------
(* The records redact_obj is run on *)

StandaloneKeys == {"phone", "aadhar", "passport", "upi_id"}

CombinatorialKeys == {"name", "email", "address", "device_id", "ip_address"}

\* a field name outside the nine category names
OtherKeys == {"customer_id"}

Keys == StandaloneKeys \cup CombinatorialKeys \cup OtherKeys

\* the most fields a record has
MaxFields == 5

FieldVals(k) ==
    CASE
         k = "phone" ->
          {Str(<<"9", "8", "7", "6", "5", "4", "3", "2", "1", "0">>),
           Num(<<"9", "8", "7", "6", "5", "4", "3", "2", "1", "0">>),
           Str(<<"9", "8", "7", "6", "5">>)}
      [] k = "aadhar" ->
          {Str(<<"1", "2", "3", "4", "5", "6", "7", "8", "9", "0", "1", "2">>),
           Num(<<"1", "2", "3", "4", "5", "6", "7", "8", "9", "0", "1", "2">>)}
      [] k = "passport" ->
          {Str(<<"A", "1", "2", "3", "4", "5", "6", "7">>),
           Str(<<"a", "1", "2", "3", "4", "5", "6", "7">>)}
      [] k = "upi_id" ->
          {Str(<<"a", "b", "@", "o", "k">>),
           Str(<<"a", "X", "X", "X", "@", "o", "k">>),
           Null}
      [] k = "name" ->
          {Str(<<"J", "o", "h", "n", " ", "D", "o", "e">>),
           Str(<<"A", " ", "B">>),
           Str(<<"J", "o", "h", "n">>)}
      [] k = "email" ->
          {Str(<<"j", "o", "h", "n", "@", "t", "e", "s", "t", ".", "c", "o", "m">>),
           Str(<<"j", "@", "t", ".", "c", "o">>),
           Str(<<"j", "o", "h", "n">>)}
      [] k = "address" ->
          {Str(<<"1", "2", ",", " ", "M", "G", " ", "R", "o", "a", "d">>),
           Str(<<"n", "o", "w", "h", "e", "r", "e">>),
           Null}
      [] k = "device_id" ->
          {Str(<<"d", "e", "v", "1">>),
           Str(<<"[", "R", "E", "D", "A", "C", "T", "E", "D", "_", "D", "E", "V", "I", "C", "E", "I", "D", "]">>),
           Str(<<"a", "b", "c">>),
           Num(<<"1", "2", "3", "4", "5", "6", "7">>)}
      [] k = "ip_address" ->
          {Str(<<"1", ".", "2", ".", "3", ".", "4">>),
           Str(<<"9", "9", "9", ".", "9", "9", "9", ".", "9", "9", "9", ".", "9", "9", "9">>),
           Null}
      [] k = "customer_id" ->
          {Str(<<"C", "1">>),
           Num(<<"7">>)}

RECURSIVE RecordsOver(_)
RecordsOver(K) ==
    IF K = {} THEN {EmptyDict}
    ELSE LET k == CHOOSE x \in K : TRUE
         IN  {Put(r, k, v) : r \in RecordsOver(K \ {k}), v \in FieldVals(k)}

\* the sets of field names a record may have
FieldSets == {X \in SUBSET Keys : Cardinality(X) <= MaxFields}

---------------------------------------------------------------------------
(* redact_obj on one decoded record *)

Init ==
    /\ pc = "redact_obj"
    /\ \E K \in FieldSets : js \in RecordsOver(K)
    /\ output_js = EmptyDict
    /\ is_pii = FALSE
    /\ val = <<>>
    /\ res = <<>>
    /\ rows = <<>>
    /\ next_row = 1
    /\ written = <<>>

RedactObj ==
    /\ pc = "redact_obj"
    /\ LET r == redact_obj([kind |-> "object", v |-> js])
       IN  /\ ~r.raised
           /\ output_js' = r.output_js
           /\ is_pii' = r.is_pii
    /\ pc' = "done"
    /\ UNCHANGED <<js, val, res, rows, next_row, written>>

Next == RedactObj

Spec == Init /\ [][Next]_vars

---------------------------------------------------------------------------
(* main: the batch loop *)

\* the most rows a batch has
MaxRows == 3

RecordIds == {"r1", "r2"}

DataJsons ==
    { [kind |-> "malformed", v |-> Null],
      [kind |-> "none", v |-> Null],
      [kind |-> "scalar", v |-> Num(<<"7">>)],
      [kind |-> "object", v |-> Put(EmptyDict, "phone", Str(<<"9", "8", "7", "6", "5", "4", "3", "2", "1", "0">>))],
      [kind |-> "object", v |-> Put(EmptyDict, "email", Str(<<"j", "o", "h", "n", "@", "t", "e", "s", "t", ".", "c", "o", "m">>))] }

InputRows == [record_id : RecordIds, data_json : DataJsons]

\* json.dumps(obj, ensure_ascii=False) of a dict of strings, numbers and nulls,
\* as tokens; keys in the order of KeyOrder, string escapes not modelled
KeyOrder ==
    <<"phone", "aadhar", "passport", "upi_id", "name", "email", "address",
      "device_id", "ip_address", "customer_id">>

DumpValue(v) ==
    CASE v.t = "str" -> <<"\"">> \o v.s \o <<"\"">>
      [] v.t = "num" -> v.s
      [] v.t = "null" -> <<"null">>

RECURSIVE DumpItems(_, _, _)
DumpItems(obj, i, first) ==
    IF i > Len(KeyOrder) THEN <<>>
    ELSE IF KeyOrder[i] \in DOMAIN obj
         THEN (IF first THEN <<>> ELSE <<",", " ">>)
              \o <<"\"", KeyOrder[i], "\"", ":", " ">>
              \o DumpValue(obj[KeyOrder[i]])
              \o DumpItems(obj, i + 1, FALSE)
         ELSE DumpItems(obj, i + 1, first)

json_dumps(obj) == <<"{">> \o DumpItems(obj, 1, TRUE) \o <<"}">>

\* str(is_pii)
PyStrBool(b) == IF b THEN "True" ELSE "False"

\* the row the try block writes
RedactedRow(row) ==
    LET r == redact_obj(row.data_json)
    IN  [record_id |-> row.record_id,
         redacted_data_json |-> json_dumps(r.output_js),
         is_pii |-> PyStrBool(r.is_pii)]

\* the row the except block writes
FallbackRow(row) ==
    [record_id |-> row.record_id,
     redacted_data_json |-> <<"{", "}">>,
     is_pii |-> "False"]

InitBatch ==
    /\ pc = "main_loop"
    /\ \E n \in 0..MaxRows : rows \in [1..n -> InputRows]
    /\ next_row = 1
    /\ written = <<>>
    /\ js = EmptyDict
    /\ output_js = EmptyDict
    /\ is_pii = FALSE
    /\ val = <<>>
    /\ res = <<>>

\* one iteration whose try block runs to its end
MainRowTry ==
    /\ pc = "main_loop"
    /\ next_row <= Len(rows)
    /\ ~redact_obj(rows[next_row].data_json).raised
    /\ written' = Append(written, RedactedRow(rows[next_row]))
    /\ next_row' = next_row + 1
    /\ UNCHANGED <<pc, js, output_js, is_pii, val, res, rows>>

\* the handler leaves the loop with the exception instead of writing a row
MainRowExcept_propagates ==
    /\ pc = "main_loop"
    /\ next_row <= Len(rows)
    /\ redact_obj(rows[next_row].data_json).raised
    /\ pc' = "raised"
    /\ UNCHANGED <<js, output_js, is_pii, val, res, rows, next_row, written>>

\* one iteration whose try block raises: the except block writes the row
MainRowExcept ==
    /\ pc = "main_loop"
    /\ next_row <= Len(rows)
    /\ redact_obj(rows[next_row].data_json).raised
    /\ written' = Append(written, FallbackRow(rows[next_row]))
    /\ next_row' = next_row + 1
    /\ UNCHANGED <<pc, js, output_js, is_pii, val, res, rows>>

\* the reader is exhausted
MainEnd ==
    /\ pc = "main_loop"
    /\ next_row > Len(rows)
    /\ pc' = "done"
    /\ UNCHANGED <<js, output_js, is_pii, val, res, rows, next_row, written>>

NextBatch == MainRowTry \/ MainRowExcept \/ MainEnd

SpecBatch == InitBatch /\ [][NextBatch]_vars

---------------------------------------------------------------------------
(* mask_upi on the texts is_upi accepts *)

\* the longest text handed to the upi_id branch
MaxUpiLen == 6

UpiAlphabet == {"a", "b", "@", "\n"}

InitUpi ==
    /\ pc = "upi_id"
    /\ \E n \in 0..MaxUpiLen : val \in [1..n -> UpiAlphabet]
    /\ res = <<>>
    /\ js = EmptyDict
    /\ output_js = EmptyDict
    /\ is_pii = FALSE
    /\ rows = <<>>
    /\ next_row = 1
    /\ written = <<>>

\* if 'upi_id' in js and is_upi(js['upi_id']): redacted['upi_id'] = mask_upi(...)
UpiMasked ==
    /\ pc = "upi_id"
    /\ is_upi(Str(val))
    /\ res' = mask_upi(Str(val)).s
    /\ pc' = "masked"
    /\ UNCHANGED <<js, output_js, is_pii, val, rows, next_row, written>>

UpiSkipped ==
    /\ pc = "upi_id"
    /\ ~is_upi(Str(val))
    /\ pc' = "skipped"
    /\ UNCHANGED <<js, output_js, is_pii, val, res, rows, next_row, written>>

NextUpi == UpiMasked \/ UpiSkipped

SpecUpi == InitUpi /\ [][NextUpi]_vars

---------------------------------------------------------------------------
(* is_ip on dotted texts *)

\* the most dot-separated groups a text has
MaxGroups == 5

IpGroups ==
    { <<>>, <<"0">>, <<"0", "1">>, <<"2", "5">>, <<"2", "5", "5">>,
      <<"2", "5", "6">>, <<"1", "a">> }

InitIp ==
    /\ pc = "is_ip"
    /\ \E n \in 1..MaxGroups : \E g \in [1..n -> IpGroups] :
          val = JoinWith(g, <<".">>)
    /\ res = FALSE
    /\ js = EmptyDict
    /\ output_js = EmptyDict
    /\ is_pii = FALSE
    /\ rows = <<>>
    /\ next_row = 1
    /\ written = <<>>

IsIp ==
    /\ pc = "is_ip"
    /\ res' = is_ip(Str(val))
    /\ pc' = "done"
    /\ UNCHANGED <<js, output_js, is_pii, val, rows, next_row, written>>

NextIp == IsIp

SpecIp == InitIp /\ [][NextIp]_vars

---------------------------------------------------------------------------
(* What the claims speak of *)

\* the classifier and the masker of a category field
Matches(k, v) ==
    CASE k = "phone" -> is_phone(v)
      [] k = "aadhar" -> is_aadhar(v)
      [] k = "passport" -> is_passport(v)
      [] k = "upi_id" -> is_upi(v)
      [] k = "name" -> is_name(v)
      [] k = "email" -> is_email(v)
      [] k = "address" -> is_address(v)
      [] k = "device_id" -> is_device_id(v)
      [] k = "ip_address" -> is_ip(v)
      [] OTHER -> FALSE

MaskOf(k, v) ==
    CASE k = "phone" -> mask_phone(v)
      [] k = "aadhar" -> mask_aadhar(v)
      [] k = "passport" -> mask_passport(v)
      [] k = "upi_id" -> mask_upi(v)
      [] k = "name" -> mask_name(v)
      [] k = "email" -> mask_email(v)
      [] k = "address" -> mask_address(v)
      [] k = "device_id" -> mask_device_id(v)
      [] k = "ip_address" -> mask_ip(v)

\* the standalone and the combinatorial fields of d their classifiers accept
StandaloneMatched(d) == {k \in StandaloneKeys \cap DOMAIN d : Matches(k, d[k])}

CombMatched(d) == {k \in CombinatorialKeys \cap DOMAIN d : Matches(k, d[k])}

\* the fields the two passes select for masking
Selected(d) ==
    StandaloneMatched(d)
    \cup (IF Cardinality(CombMatched(d)) >= 2 THEN CombMatched(d) ELSE {})

Returned == pc = "done"

\* C1: the masked record redact_obj returns has exactly the key set of the
\* input record, whatever standalone and combinatorial fields matched.
C1_SameKeys == Returned => DOMAIN output_js = DOMAIN js

C1_Witness ==
    /\ Returned
    /\ StandaloneMatched(js) # {}
    /\ Cardinality(CombMatched(js)) >= 2
    /\ "customer_id" \in DOMAIN js
    /\ DOMAIN output_js = DOMAIN js

\* C2: a standalone field that is present and accepted by its classifier holds
\* its own masker's output in the masked record, whatever the other fields are
\* and whether or not the combinatorial pass masks anything, and found is true.
C2_StandaloneAlwaysMasked ==
    Returned =>
        \A k \in StandaloneKeys \cap DOMAIN js :
            Matches(k, js[k]) => output_js[k] = MaskOf(k, js[k]) /\ is_pii

C2_Witness ==
    /\ Returned
    /\ "phone" \in DOMAIN js
    /\ is_phone(js["phone"])
    /\ Cardinality(CombMatched(js)) >= 2
    /\ output_js["phone"] = mask_phone(js["phone"])
    /\ output_js["phone"] # js["phone"]

\* C3: when two or more combinatorial fields are present and accepted, every
\* one of them holds its masker's output in the masked record and found is true.
C3_AllCombinatorialMasked ==
    Returned /\ Cardinality(CombMatched(js)) >= 2 =>
        /\ is_pii
        /\ \A k \in CombMatched(js) : output_js[k] = MaskOf(k, js[k])

C3_Witness ==
    /\ Returned
    /\ Cardinality(CombMatched(js)) >= 3
    /\ \A k \in CombMatched(js) : output_js[k] = MaskOf(k, js[k])
    /\ \E k \in CombMatched(js) : output_js[k] # js[k]

\* C4, as claimed: when exactly one combinatorial field is present and accepted,
\* found is false and every combinatorial field keeps its input value.
C4_Original ==
    Returned /\ Cardinality(CombMatched(js)) = 1 =>
        /\ ~is_pii
        /\ \A k \in CombinatorialKeys \cap DOMAIN js : output_js[k] = js[k]

\* C4, as amended: when exactly one combinatorial field is present and accepted,
\* every combinatorial field keeps its input value, and found is true exactly
\* when some standalone field is present and accepted by its classifier.
C4_Amended ==
    Returned /\ Cardinality(CombMatched(js)) = 1 =>
        /\ is_pii <=> StandaloneMatched(js) # {}
        /\ \A k \in CombinatorialKeys \cap DOMAIN js : output_js[k] = js[k]

C4_Witness ==
    /\ Returned
    /\ Cardinality(CombMatched(js)) = 1
    /\ StandaloneMatched(js) # {}
    /\ is_pii
    /\ \A k \in CombinatorialKeys \cap DOMAIN js : output_js[k] = js[k]

\* C5, as claimed: whenever found is true, some field of the masked record
\* differs from that field of the input record.
C5_Original ==
    Returned /\ is_pii => \E k \in DOMAIN js : output_js[k] # js[k]

\* C5, as amended: whenever found is true, at least one field was selected for
\* masking and every selected field holds its masker's output; the masked
\* record differs from the input in some field unless every selected field's
\* masker returns the value it was given.
C5_Amended ==
    Returned /\ is_pii =>
        /\ Selected(js) # {}
        /\ \A k \in Selected(js) : output_js[k] = MaskOf(k, js[k])
        /\ (\E k \in DOMAIN js : output_js[k] # js[k])
               <=> (\E k \in Selected(js) : MaskOf(k, js[k]) # js[k])

C5_Witness ==
    /\ Returned
    /\ is_pii
    /\ output_js = js
    /\ Cardinality(CombMatched(js)) >= 2

\* C6: every field matched by neither pass keeps exactly its input value in the
\* masked record, fields outside the nine category names included.
C6_UnselectedUnchanged ==
    Returned =>
        \A k \in DOMAIN js \ Selected(js) :
            k \in DOMAIN output_js /\ output_js[k] = js[k]

C6_Witness ==
    /\ Returned
    /\ is_pii
    /\ "customer_id" \in DOMAIN js
    /\ output_js["customer_id"] = js["customer_id"]
    /\ Cardinality(CombMatched(js)) = 1
    /\ \E k \in StandaloneKeys \cap DOMAIN js : k \notin Selected(js)

\* the fields of d holding text, and d without its other fields
TextFields(d) == {k \in DOMAIN d : IsStr(d[k])}

TextOnly(d) == [k \in TextFields(d) |-> d[k]]

\* C8: a field holding a number or null never matches: it is left as it is, and
\* found and every other field come out as they do for the record without the
\* non-text fields (so it neither sets found nor counts toward the two matches
\* the combinatorial pass needs).
C8_NonTextNeverMatches ==
    Returned =>
        /\ is_pii = redact_dict(TextOnly(js)).is_pii
        /\ \A k \in DOMAIN js \ TextFields(js) : output_js[k] = js[k]
        /\ \A k \in TextFields(js) :
               output_js[k] = redact_dict(TextOnly(js)).output_js[k]

C8_Witness ==
    /\ Returned
    /\ "phone" \in DOMAIN js
    /\ js["phone"] = Num(<<"9", "8", "7", "6", "5", "4", "3", "2", "1", "0">>)
    /\ output_js["phone"] = js["phone"]
    /\ "device_id" \in DOMAIN js
    /\ js["device_id"].t = "num"
    /\ CombMatched(js) = {"name"}
    /\ ~is_pii

---------------------------------------------------------------------------
(* C7: the batch *)

\* the row's payload cannot be decoded, or processing it raises
RowFails(row) == redact_obj(row.data_json).raised

\* C7: a batch writes one row per input row, in order, each with its row's
\* record_id; a row whose payload cannot be decoded or whose processing raises
\* gives the fallback row ('{}', 'False'), any other row its redaction; the rows
\* after a failing row are processed, and the run always reaches its end.
C7_OneRowPerInputRow ==
    /\ pc \in {"main_loop", "done"}
    /\ Len(written) = next_row - 1
    /\ Len(written) <= Len(rows)
    /\ \A i \in 1..Len(written) :
          /\ written[i].record_id = rows[i].record_id
          /\ RowFails(rows[i]) =>
                 /\ written[i].redacted_data_json = <<"{", "}">>
                 /\ written[i].is_pii = "False"
          /\ ~RowFails(rows[i]) =>
                 /\ written[i].redacted_data_json
                        = json_dumps(redact_obj(rows[i].data_json).output_js)
                 /\ written[i].is_pii
                        = PyStrBool(redact_obj(rows[i].data_json).is_pii)
    /\ pc = "done" => Len(written) = Len(rows)
    /\ pc # "done" => ENABLED NextBatch

C7_Witness ==
    /\ pc = "done"
    /\ Len(rows) = 3
    /\ RowFails(rows[1])
    /\ rows[1].data_json.kind = "malformed"
    /\ ~RowFails(rows[2])
    /\ RowFails(rows[3])
    /\ Len(written) = 3
    /\ written[1].is_pii = "False"
    /\ written[2].is_pii = "True"

---------------------------------------------------------------------------
(* C9: mask_upi *)

\* the transform the specification gives for payment_handle
FirstAt(s) == SetMin({i \in DOMAIN s : s[i] = "@"})

ClaimedMaskUpi(s) ==
    SubSeq(s, 1, Min(1, FirstAt(s) - 1)) \o Xs(3) \o SubSeq(s, FirstAt(s), Len(s))

\* C9, as claimed: for every text with an '@', mask_upi returns the first
\* character before the (first) '@', then 'XXX' in place of everything else
\* before it, then the '@' and everything after it unchanged.
C9_MaskUpiAsClaimed == pc = "masked" => res = ClaimedMaskUpi(val)

---------------------------------------------------------------------------
(* C10: is_ip *)

\* str.split('.')
RECURSIVE SplitDots(_, _, _)
SplitDots(s, i, cur) ==
    IF i > Len(s) THEN <<cur>>
    ELSE IF s[i] = "." THEN <<cur>> \o SplitDots(s, i + 1, <<>>)
    ELSE SplitDots(s, i + 1, Append(cur, s[i]))

DigitValue(c) == CHOOSE n \in 0..9 : ToString(n) = c

\* the number a text of digits denotes, capped above 255
RECURSIVE DecimalValue(_)
DecimalValue(g) ==
    IF g = <<>> THEN 0
    ELSE Min(256, 10 * DecimalValue(SubSeq(g, 1, Len(g) - 1)) + DigitValue(g[Len(g)]))

IsOctetNumber(g) == g # <<>> /\ AllDigits(g) /\ DecimalValue(g) <= 255

NoLeadingZero(g) == Len(g) = 1 \/ g[1] # "0"

\* C10, as claimed: is_ip accepts a text exactly when it is 4 dot-separated
\* groups, each non-empty and a decimal integer in 0..255.
C10_Original ==
    pc = "done" =>
        (res <=> LET g == SplitDots(val, 1, <<>>)
                 IN  Len(g) = 4 /\ \A i \in 1..Len(g) : IsOctetNumber(g[i]))

\* C10, as amended: is_ip accepts a text exactly when it is 4 dot-separated
\* groups, each non-empty and a decimal integer in 0..255 written without a
\* leading zero (so 01.2.3.4 is rejected).
C10_Amended ==
    pc = "done" =>
        (res <=> LET g == SplitDots(val, 1, <<>>)
                 IN  /\ Len(g) = 4
                     /\ \A i \in 1..Len(g) :
                            IsOctetNumber(g[i]) /\ NoLeadingZero(g[i]))

C10_Witness ==
    /\ pc = "done"
    /\ res
    /\ val = <<"2", "5", "5", ".", "0", ".", "2", "5", ".", "2", "5", "5">>

====
